---- MODULE Spec2Model ----
(***************************************************************************)
(* reddit-profiler: the POST /api/profile handler in its three revisions   *)
(* (src/app/api/profile/route.ts lines 1-177 and 178-368,                  *)
(* src/unnamed/part_001) and the retrying generateProfile of               *)
(* src/unnamed/part_000.  One behaviour is one run of POST: the request    *)
(* is received, the token exchange, the listing fetch and the completion   *)
(* call(s) are issued and settle, and a response is produced.              *)
(***************************************************************************)
EXTENDS Integers, Sequences, FiniteSets, TLC

(***************************************************************************)
(* Bounds of the model.                                                    *)
(***************************************************************************)
\* longest children array a listing response carries
MaxChildren == 2
\* longest enumerated handle (after its prefix) of the validation runs
MaxBodyLen == 3
\* longest enumerated username of the cleaning runs
MaxHandleLen == 4

(***************************************************************************)
(* JavaScript values.                                                      *)
(***************************************************************************)
Undefined == [type |-> "undefined"]
Null == [type |-> "null"]
Str(s) == [type |-> "string", str |-> s]

\* ToBoolean of a value: undefined, null and '' are falsy
Truthy(v) == v.type \notin {"undefined", "null"} /\ (v.type = "string" => v.str # "")

\* an Error object carrying a message
Error(m) == [type |-> "Error", message |-> m]

(***************************************************************************)
(* Strings.                                                                *)
(***************************************************************************)
CharAt(s, i) == SubSeq(s, i, i)

\* String.prototype.slice(0, n)
SliceTo(s, n) == IF Len(s) <= n THEN s ELSE SubSeq(s, 1, n)

\* String.prototype.slice(n)
SliceFrom(s, n) == SubSeq(s, n + 1, Len(s))

\* String.prototype.includes
Includes(s, needle) ==
  \E i \in 1..(Len(s) - Len(needle) + 1) : SubSeq(s, i, i + Len(needle) - 1) = needle

Letters ==
  {"a","b","c","d","e","f","g","h","i","j","k","l","m",
   "n","o","p","q","r","s","t","u","v","w","x","y","z",
   "A","B","C","D","E","F","G","H","I","J","K","L","M",
   "N","O","P","Q","R","S","T","U","V","W","X","Y","Z"}
Digits == {"0","1","2","3","4","5","6","7","8","9"}

(***************************************************************************)
(* Username cleaning and validation.                                       *)
(***************************************************************************)
\* variant: the i flag is missing, only a lower-case 'u/' is matched
PrefixMatchLen_Mut(s) ==
  LET slash == IF Len(s) >= 1 /\ CharAt(s, 1) = "/" THEN 1 ELSE 0
      u == IF /\ Len(s) >= slash + 2
              /\ CharAt(s, slash + 1) = "u"
              /\ CharAt(s, slash + 2) = "/"
           THEN 2 ELSE 0
  IN slash + u

\* the regular expression /^\/?(u\/)?/i : the length of its (greedy) match
PrefixMatchLen(s) ==
  LET slash == IF Len(s) >= 1 /\ CharAt(s, 1) = "/" THEN 1 ELSE 0
      u == IF /\ Len(s) >= slash + 2
              /\ CharAt(s, slash + 1) \in {"u", "U"}
              /\ CharAt(s, slash + 2) = "/"
           THEN 2 ELSE 0
  IN slash + u

\* username.replace(/^\/?(u\/)?/i, '')
cleanRedditUsername(username) == SliceFrom(username, PrefixMatchLen(username))

MinUsernameLen == 3
MaxUsernameLen == 20

\* /^[a-zA-Z0-9][a-zA-Z0-9_-]*$/.test(s)
ValidChars(s) ==
  /\ Len(s) >= 1
  /\ CharAt(s, 1) \in Letters \cup Digits
  /\ \A i \in 2..Len(s) : CharAt(s, i) \in Letters \cup Digits \cup {"_", "-"}

TooShort(clean) == Len(clean) < MinUsernameLen

\* variant: a username of exactly the maximum length is refused
TooLong_Mut(clean) == Len(clean) >= MaxUsernameLen

TooLong(clean) == Len(clean) > MaxUsernameLen

\* validateRedditUsername: { isValid, cleanUsername?, error? }
validateRedditUsername(username) ==
  LET clean == cleanRedditUsername(username) IN
  IF TooShort(clean)
    THEN [isValid |-> FALSE, cleanUsername |-> Undefined,
          error |-> "Username must be at least 3 characters long"]
  ELSE IF TooLong(clean)
    THEN [isValid |-> FALSE, cleanUsername |-> Undefined,
          error |-> "Username must be no more than 20 characters long"]
  ELSE IF ~ValidChars(clean)
    THEN [isValid |-> FALSE, cleanUsername |-> Undefined,
          error |-> "Username can only contain letters, numbers, underscores, and hyphens"]
  ELSE [isValid |-> TRUE, cleanUsername |-> Str(clean), error |-> ""]

(***************************************************************************)
(* The revisions, and what the outside world can answer.                   *)
(***************************************************************************)
\* route.ts lines 1-177, route.ts lines 178-368, part_001
Revisions == {"validating", "logging", "reduced"}
\* the file's own generateProfile (one call), or part_000's (timeout and retry)
Invokers == {"single", "retrying"}

\* request bodies: the username field missing, null, or a string
RequestUsernames ==
  {Undefined, Null, Str(""), Str("spez"), Str("u/spez"), Str("/U/spez"), Str("ab"),
   Str(" spez"), Str("u/u/spez")}

\* message of the TypeError fetch rejects with
FetchMessages == {"fetch failed"}
\* messages of the SyntaxError response.json() rejects with; the second
\* quotes the start of the body, as current engines do
JsonMessages ==
  {"Unexpected end of JSON input",
   "Unexpected token 'U', \"User not found\" is not valid JSON"}
\* messages of the errors the completion client rejects with: '<status>
\* <message>', the message being the upstream's text
CompletionMessages == {"Connection error.", "401 User not found."}

Rejected(m) == [settle |-> "rejected", error |-> Error(m)]
BadJson(m) == [type |-> "SyntaxError", message |-> m]
Ok(status) == status \in 200..299

\* answers of https://www.reddit.com/api/v1/access_token
TokenOutcomes ==
  {Rejected(m) : m \in FetchMessages}
  \cup {[settle |-> "fulfilled", status |-> 401, json |-> Null]}
  \cup {[settle |-> "fulfilled", status |-> 200, json |-> j] :
          j \in {BadJson(m) : m \in JsonMessages}
                \cup {[type |-> "object", access_token |-> t] : t \in {Undefined, Str("tok")}}}

\* the children of a listing: with no data, with data and no body, with a body
CommentBodies == {"", "first", "second"}
Children ==
  {[type |-> "object", data |-> Undefined],
   [type |-> "object", data |-> [type |-> "object", body |-> Undefined]]}
  \cup {[type |-> "object", data |-> [type |-> "object", body |-> Str(b)]] : b \in CommentBodies}
ChildrenArrays == UNION {[1..n -> Children] : n \in 0..MaxChildren}

\* answers of https://oauth.reddit.com/user/<handle>/comments
ListingOutcomes ==
  {Rejected(m) : m \in FetchMessages}
  \cup {[settle |-> "fulfilled", status |-> s, json |-> Null] : s \in {404, 403, 500}}
  \cup {[settle |-> "fulfilled", status |-> 200, json |-> j] :
          j \in {BadJson(m) : m \in JsonMessages}
                \cup {Null,
                      [type |-> "object", data |-> Undefined],
                      [type |-> "object", data |-> [type |-> "object", children |-> Undefined]]}
                \cup {[type |-> "object",
                       data |-> [type |-> "object",
                                 children |-> [type |-> "array", items |-> c]]] :
                        c \in ChildrenArrays}}

\* answers of openai.chat.completions.create: a rejection, or a completion
\* whose choices are empty or hold one message
ProfileTexts == {"Likes cats.", "Plays chess."}
CompletionOutcomes ==
  {Rejected(m) : m \in CompletionMessages}
  \cup {[settle |-> "fulfilled", choices |-> <<>>]}
  \cup {[settle |-> "fulfilled", choices |-> <<[message |-> [content |-> c]]>>] :
          c \in {Null, Str("")} \cup {Str(t) : t \in ProfileTexts}}

(***************************************************************************)
(* State of one run of POST.                                               *)
(***************************************************************************)
VARIABLES
  revision,    \* which revision of the route file runs
  invoker,     \* which generateProfile it calls
  username,    \* the username field of the request body
  pc,          \* where the run is suspended
  fetchArg,    \* the argument POST gives fetchRedditComments
  calls,       \* the outbound calls issued so far, in order
  comments,    \* what fetchRedditComments returned
  attempt,     \* generateProfile (retrying): the loop counter
  lastError,   \* generateProfile (retrying): lastError
  delays,      \* generateProfile (retrying): the backoff sleeps started, ms
  timers,      \* per attempt: the setTimeout of timeoutPromise
  promises,    \* per attempt: openaiPromise
  listing,     \* history: what the listing endpoint answered
  races,       \* history: per decided race of the retrying loop, what won it
  failure,     \* history: the step that threw, and why ("none" while nothing has)
  response,    \* the NextResponse returned
  cancelled,   \* whether the caller has aborted the request (req.signal)
  accessToken, \* what getRedditToken returned to fetchRedditComments
  pageUsername, \* the page: the username state (the text of the input)
  pageProfile, \* the page: the profile state
  loading,     \* the page: the loading state
  pageError,   \* the page: the error state
  runs         \* the page: the generateProfile runs suspended at an await

vars == <<revision, invoker, username, pc, fetchArg, calls, comments, attempt,
          lastError, delays, timers, promises, listing, races, failure, response,
          cancelled, accessToken, pageUsername, pageProfile, loading, pageError, runs>>

\* the state of the page component
page == <<pageUsername, pageProfile, loading, pageError, runs>>

\* the state of the route
route == <<revision, invoker, username, pc, fetchArg, calls, comments, attempt,
           lastError, delays, timers, promises, listing, races, failure, response,
           cancelled, accessToken>>

NoResponse == [status |-> 0, profile |-> Undefined, error |-> Undefined]
NoFailure == [step |-> "none", kind |-> "none"]
NoListing == [status |-> 0, shape |-> "none", kept |-> 0]
NoToken == [type |-> "none"]

Call(kind, handle) == [kind |-> kind, handle |-> handle]

InitWith(usernames) ==
  /\ revision \in Revisions
  /\ invoker \in Invokers
  /\ username \in usernames
  /\ pc = "received"
  /\ fetchArg = ""
  /\ calls = <<>>
  /\ comments = <<>>
  /\ attempt = 0
  /\ lastError = Null
  /\ delays = <<>>
  /\ timers = <<>>
  /\ promises = <<>>
  /\ listing = NoListing
  /\ races = <<>>
  /\ failure = NoFailure
  /\ response = NoResponse
  /\ cancelled = FALSE
  /\ accessToken = NoToken
  /\ pageUsername = ""
  /\ pageProfile = ""
  /\ loading = FALSE
  /\ pageError = ""
  /\ runs = <<>>

Init == InitWith(RequestUsernames)

(***************************************************************************)
(* POST: the responses.                                                    *)
(***************************************************************************)
JsonResponse(status, profile, error) ==
  [status |-> status, profile |-> profile, error |-> error]

\* the catch block of POST
ErrorResponse(error) ==
  IF Includes(error.message, "User not found")
    THEN JsonResponse(404, Undefined, Str("Reddit user not found"))
  ELSE IF Includes(error.message, "No comments")
    THEN JsonResponse(404, Undefined, Str("This user has no public comments"))
  ELSE JsonResponse(500, Undefined, Str("Error: " \o error.message))

\* variant: the error is answered but the run goes on where it was
Throw_Mut(step, kind, error) ==
  /\ failure' = [step |-> step, kind |-> kind]
  /\ response' = ErrorResponse(error)
  /\ pc' = pc

\* an error thrown at `step` reaches the catch block of POST
Throw(step, kind, error) ==
  /\ failure' = [step |-> step, kind |-> kind]
  /\ response' = ErrorResponse(error)
  /\ pc' = "responded"

(***************************************************************************)
(* POST up to the first await, and getRedditToken.                         *)
(***************************************************************************)
\* variant: only a missing or null username is refused, '' is let through
UsernameMissing_Mut(u) == u.type \in {"undefined", "null"}

\* if (!username)
UsernameMissing(u) == ~Truthy(u)

\* the request is received: the username check, the cleaning or validation,
\* then fetchRedditComments calls getRedditToken, which issues the token fetch
POST_Receive ==
  /\ pc = "received"
  /\ IF UsernameMissing(username)
       THEN /\ response' = JsonResponse(400, Undefined, Str("Username is required"))
            /\ pc' = "responded"
            /\ UNCHANGED <<fetchArg, calls>>
     ELSE IF revision = "validating" /\ ~validateRedditUsername(username.str).isValid
       THEN /\ response' = JsonResponse(400, Undefined,
                                        Str(validateRedditUsername(username.str).error))
            /\ pc' = "responded"
            /\ UNCHANGED <<fetchArg, calls>>
     ELSE /\ fetchArg' = IF revision = "validating"
                           THEN validateRedditUsername(username.str).cleanUsername.str
                           ELSE cleanRedditUsername(username.str)
          /\ calls' = Append(calls, Call("token", ""))
          /\ pc' = "token"
          /\ UNCHANGED response
  /\ UNCHANGED <<page, accessToken, cancelled, revision, invoker,
                 username, comments, attempt, lastError, delays,
                 timers, promises, listing, races, failure>>

\* the handle fetchRedditComments puts in the listing URL: the validating
\* revision uses its argument, the others clean it once more
ListingHandle(rev, arg) == IF rev = "validating" THEN arg ELSE cleanRedditUsername(arg)

\* the token fetch settles; on success fetchRedditComments issues the listing fetch
TokenSettles(o) ==
  /\ pc = "token"
  /\ IF o.settle = "rejected"
       THEN Throw("token", "rejected", o.error) /\ UNCHANGED <<calls, accessToken>>
     ELSE IF ~Ok(o.status)
       THEN /\ Throw("token", "not_ok", Error("Failed to get Reddit access token"))
            /\ UNCHANGED <<calls, accessToken>>
     ELSE IF o.json.type = "SyntaxError"
       THEN Throw("token", "bad_json", Error(o.json.message)) /\ UNCHANGED <<calls, accessToken>>
     ELSE /\ accessToken' = o.json.access_token
          /\ calls' = Append(calls, Call("listing", ListingHandle(revision, fetchArg)))
          /\ pc' = "listing"
          /\ UNCHANGED <<failure, response>>
  /\ UNCHANGED <<page, cancelled, revision, invoker, username, fetchArg, comments, attempt,
                 lastError,
                 delays, timers, promises, listing, races>>

(***************************************************************************)
(* fetchRedditComments after the listing fetch, and the start of           *)
(* generateProfile.                                                        *)
(***************************************************************************)
\* .filter(child => child.data && child.data.body).map(child => child.data.body)
RECURSIVE FilterBodies(_)
FilterBodies(items) ==
  IF Len(items) = 0 THEN <<>>
  ELSE LET child == Head(items)
           keep == Truthy(child.data) /\ Truthy(child.data.body)
       IN (IF keep THEN <<child.data.body.str>> ELSE <<>>) \o FilterBodies(Tail(items))

\* !data || !data.data || !data.data.children
MalformedListing(json) ==
  \/ ~Truthy(json)
  \/ ~Truthy(json.data)
  \/ ~Truthy(json.data.children)

\* variant: the thrown message is the text of the response
NotFoundMessage_Mut(rev) == "Reddit user not found"

\* the message thrown on a 404 of the listing endpoint
NotFoundMessage(rev) == IF rev = "reduced" THEN "User not found!" ELSE "User not found"

\* whether fetchRedditComments has the `comments.length === 0` check
ChecksEmpty(rev) == rev # "logging"

MAX_RETRIES == 3

(***************************************************************************)
(* The prompt.                                                             *)
(***************************************************************************)
PromptTemplate ==
  "Analyze these recent Reddit comments and create a concise profile of the user, "
  \o "including their interests, personality traits, and recurring topics. "
  \o "Focus on creating a well-rounded understanding of their online persona. "
  \o "Comments: "

\* comments.join(' ')
RECURSIVE JoinComments(_)
JoinComments(cs) ==
  IF Len(cs) = 0 THEN ""
  ELSE IF Len(cs) = 1 THEN cs[1]
  ELSE cs[1] \o " " \o JoinComments(Tail(cs))

\* the second argument of slice: 1000 in part_001's generateProfile, 6000 in
\* the other three
PromptCeiling(rev, inv) == IF inv = "single" /\ rev = "reduced" THEN 1000 ELSE 6000

\* variant: the joined comments are not cut
Excerpt_Mut(rev, inv, cs) == JoinComments(cs)

\* const commentText = comments.join(' ').slice(0, N)
Excerpt(rev, inv, cs) == SliceTo(JoinComments(cs), PromptCeiling(rev, inv))

\* const prompt = `... Comments: ${commentText}`
PromptOf(rev, inv, cs) == PromptTemplate \o Excerpt(rev, inv, cs)

\* the completion request: messages: [{ role: "user", content: prompt }]
CompletionCall(prompt) == [kind |-> "completion", handle |-> "", prompt |-> prompt]

\* generateProfile up to its first await: the single call, or attempt 1 of
\* the retrying loop (the timeout timer is set, then the call is issued)
StartGenerateProfile(cs) ==
  /\ calls' = Append(calls, CompletionCall(PromptOf(revision, invoker, cs)))
  /\ IF invoker = "single"
       THEN /\ pc' = "completion"
            /\ UNCHANGED <<attempt, timers, promises>>
       ELSE /\ pc' = "race"
            /\ attempt' = 1
            /\ timers' = <<"pending">>
            /\ promises' = <<"pending">>

\* what a listing answer is, seen from outside: its status (0 when the
\* fetch itself failed), whether its body is a listing, and how many of its
\* children carry a non-empty body
ListingSeen(o) ==
  IF o.settle = "rejected" THEN [status |-> 0, shape |-> "none", kept |-> 0]
  ELSE IF o.status # 200 THEN [status |-> o.status, shape |-> "none", kept |-> 0]
  ELSE IF o.json.type = "SyntaxError" THEN [status |-> 200, shape |-> "bad_json", kept |-> 0]
  ELSE IF \/ o.json.type # "object"
          \/ o.json.data.type # "object"
          \/ o.json.data.children.type # "array"
    THEN [status |-> 200, shape |-> "malformed", kept |-> 0]
  ELSE LET items == o.json.data.children.items IN
       [status |-> 200, shape |-> "listing",
        kept |-> Cardinality({i \in DOMAIN items :
                               /\ items[i].data.type = "object"
                               /\ items[i].data.body.type = "string"
                               /\ items[i].data.body.str # ""})]

\* the listing fetch settles
ListingSettles(o) ==
  /\ pc = "listing"
  /\ listing' = ListingSeen(o)
  /\ IF o.settle = "rejected"
       THEN /\ Throw("listing", "rejected", o.error)
            /\ UNCHANGED <<calls, comments, attempt, timers, promises>>
     ELSE IF o.status = 404
       THEN /\ Throw("listing", "status404", Error(NotFoundMessage(revision)))
            /\ UNCHANGED <<calls, comments, attempt, timers, promises>>
     ELSE IF ~Ok(o.status)
       THEN /\ Throw("listing", "status_other",
                     Error("Reddit API error: " \o ToString(o.status)))
            /\ UNCHANGED <<calls, comments, attempt, timers, promises>>
     ELSE IF o.json.type = "SyntaxError"
       THEN /\ Throw("listing", "bad_json", Error(o.json.message))
            /\ UNCHANGED <<calls, comments, attempt, timers, promises>>
     ELSE IF MalformedListing(o.json)
       THEN /\ Throw("listing", "malformed", Error("Invalid response format from Reddit"))
            /\ UNCHANGED <<calls, comments, attempt, timers, promises>>
     ELSE IF ChecksEmpty(revision) /\ Len(FilterBodies(o.json.data.children.items)) = 0
       THEN /\ Throw("listing", "no_comments", Error("No comments found for this user"))
            /\ UNCHANGED <<calls, comments, attempt, timers, promises>>
     ELSE /\ comments' = FilterBodies(o.json.data.children.items)
          /\ StartGenerateProfile(FilterBodies(o.json.data.children.items))
          /\ UNCHANGED <<failure, response>>
  /\ UNCHANGED <<page, accessToken, cancelled, revision, invoker,
                 username, fetchArg, lastError, delays, races>>

(***************************************************************************)
(* POST after generateProfile, and the single-call generateProfile.        *)
(***************************************************************************)
\* reading a property of undefined or null throws a TypeError
TypeErrorReading(v, property) ==
  Error("Cannot read properties of " \o v.type \o " (reading '" \o property \o "')")

\* whether POST reads profile.length before it answers
LogsProfileLength(rev) == rev = "logging"

\* generateProfile returned `profile`: POST answers { profile }
ReturnProfile(profile) ==
  IF LogsProfileLength(revision) /\ profile.type \in {"undefined", "null"}
    THEN Throw("post", "type_error", TypeErrorReading(profile, "length"))
    ELSE /\ response' = JsonResponse(200, profile, Undefined)
         /\ pc' = "responded"
         /\ UNCHANGED failure

\* completion.choices[0]
FirstChoice(completion) ==
  IF Len(completion.choices) = 0 THEN Undefined
  ELSE [type |-> "object", message |-> Head(completion.choices).message]

\* the single-call generateProfile: the completion call settles
CompletionSettles(o) ==
  /\ pc = "completion"
  /\ IF o.settle = "rejected"
       THEN Throw("completion", "rejected", o.error)
     ELSE IF FirstChoice(o).type = "undefined"
       THEN Throw("completion", "type_error", TypeErrorReading(Undefined, "message"))
     ELSE IF /\ revision = "logging"
             /\ FirstChoice(o).message.content.type = "null"
       THEN Throw("completion", "type_error", TypeErrorReading(Null, "length"))
     ELSE ReturnProfile(FirstChoice(o).message.content)
  /\ UNCHANGED <<page, accessToken, cancelled, revision, invoker,
                 username, fetchArg, calls, comments, attempt,
                 lastError, delays, timers, promises, listing, races>>

(***************************************************************************)
(* The retrying generateProfile.                                           *)
(***************************************************************************)
\* variant: the loop runs once more
LoopContinues_Mut(a) == a <= MAX_RETRIES + 1

\* the for loop's condition
LoopContinues(a) == a <= MAX_RETRIES

\* variant: the failed last attempt is followed by a sleep too
SleepsAfter_Mut(a) == a <= MAX_RETRIES

\* if (attempt < MAX_RETRIES)
SleepsAfter(a) == a < MAX_RETRIES

\* variant: the exponent is one too small
BackoffDelay_Mut(a) == (2 ^ (a - 1)) * 1000

\* Math.pow(2, attempt) * 1000
BackoffDelay(a) == (2 ^ a) * 1000

\* error instanceof Error ? error : new Error('Unknown error occurred')
ToError(e) == IF e.type = "Error" THEN e ELSE Error("Unknown error occurred")

\* variant: the second choice is read instead of the first
OptionalContent_Mut(completion) ==
  IF Len(completion.choices) < 2 THEN Undefined
  ELSE completion.choices[2].message.content

\* completion?.choices?.[0]?.message?.content
OptionalContent(completion) ==
  IF FirstChoice(completion).type = "undefined" THEN Undefined
  ELSE FirstChoice(completion).message.content

\* the loop's next iteration: attempt `a` starts (the timeout timer is set,
\* then the call is issued) if the loop condition holds, else the loop is
\* left and lastError is thrown; ts and ps are the timers and promises so far
Iterate(a, err, kind, ts, ps) ==
  IF LoopContinues(a)
    THEN /\ attempt' = a
         /\ timers' = Append(ts, "pending")
         /\ promises' = Append(ps, "pending")
         /\ calls' = Append(calls, CompletionCall(PromptOf(revision, invoker, comments)))
         /\ pc' = "race"
         /\ UNCHANGED <<failure, response>>
    ELSE /\ Throw("completion", kind, err)
         /\ timers' = ts
         /\ promises' = ps
         /\ UNCHANGED <<attempt, calls>>

\* the catch block of an attempt: lastError is set, then the backoff sleep
\* starts or the loop goes on at once
Catch(error, kind, ts, ps) ==
  /\ lastError' = ToError(error)
  /\ IF SleepsAfter(attempt)
       THEN /\ delays' = Append(delays, BackoffDelay(attempt))
            /\ pc' = "sleep"
            /\ timers' = ts
            /\ promises' = ps
            /\ UNCHANGED <<attempt, calls, failure, response>>
       ELSE /\ Iterate(attempt + 1, ToError(error), kind, ts, ps)
            /\ UNCHANGED delays

\* variant: whatever call settles while a race is awaited decides that race
Awaited_Mut(a) == pc = "race"

\* whether the race of attempt `a` is the one generateProfile is awaiting:
\* the promise and the timer of every other attempt have no listener left
Awaited(a) == pc = "race" /\ a = attempt

\* the openaiPromise of the running attempt settles before its timer fires
RaceCallSettles(a, o) ==
  /\ a \in 1..Len(promises)
  /\ Awaited(a)
  /\ promises[a] = "pending"
  /\ races' = Append(races, o)
  /\ LET settled == [promises EXCEPT ![a] = o.settle] IN
     IF o.settle = "rejected"
       THEN Catch(o.error, "rejected", timers, settled)
     ELSE IF ~Truthy(OptionalContent(o))
       THEN Catch(Error("Invalid response format from OpenAI"), "invalid_format",
                  timers, settled)
     ELSE /\ ReturnProfile(OptionalContent(o))
          /\ promises' = settled
          /\ UNCHANGED <<attempt, lastError, delays, timers, calls>>
  /\ UNCHANGED <<page, accessToken, cancelled, revision, invoker, username, fetchArg, comments,
                 listing>>

\* variant: the timer of the last attempt never fires
MayFire_Mut(a) ==
  /\ a \in 1..Len(timers)
  /\ timers[a] = "pending"
  /\ a < MAX_RETRIES
  /\ \A b \in 1..(a - 1) : timers[b] = "fired"

\* timers of equal duration fire in the order they were set
MayFire(a) ==
  /\ a \in 1..Len(timers)
  /\ timers[a] = "pending"
  /\ \A b \in 1..(a - 1) : timers[b] = "fired"

\* the timer of the running attempt fires first: timeoutPromise rejects and
\* wins the race; the call stays in flight
RaceTimerFires ==
  /\ pc = "race"
  /\ MayFire(attempt)
  /\ races' = Append(races, [settle |-> "timeout"])
  /\ Catch(Error("OpenAI API request timeout"), "timeout",
           [timers EXCEPT ![attempt] = "fired"], promises)
  /\ UNCHANGED <<page, accessToken, cancelled, revision, invoker, username, fetchArg, comments,
                 listing>>

\* the backoff sleep ends: the loop increments attempt
SleepEnds ==
  /\ pc = "sleep"
  /\ Iterate(attempt + 1, lastError, "exhausted", timers, promises)
  /\ UNCHANGED <<page, accessToken, cancelled, revision, invoker,
                 username, fetchArg, comments, lastError, delays,
                 listing, races>>

\* a timer whose race is already decided fires: nothing listens to it
StaleTimerFires(a) ==
  /\ MayFire(a)
  /\ ~Awaited(a)
  /\ timers' = [timers EXCEPT ![a] = "fired"]
  /\ UNCHANGED <<page, accessToken, cancelled, revision, invoker,
                 username, pc, fetchArg, calls, comments, attempt,
                 lastError, delays, promises, listing, races, failure, response>>

\* a call abandoned by a timed-out race settles: nothing listens to it
AbandonedCallSettles(a, o) ==
  /\ a \in 1..Len(promises)
  /\ promises[a] = "pending"
  /\ ~Awaited(a)
  /\ promises' = [promises EXCEPT ![a] = o.settle]
  /\ UNCHANGED <<page, accessToken, cancelled, revision, invoker,
                 username, pc, fetchArg, calls, comments, attempt,
                 lastError, delays, timers, listing, races, failure, response>>

Next ==
  \/ POST_Receive
  \/ \E o \in TokenOutcomes : TokenSettles(o)
  \/ \E o \in ListingOutcomes : ListingSettles(o)
  \/ \E o \in CompletionOutcomes : CompletionSettles(o)
  \/ \E a \in 1..MAX_RETRIES, o \in CompletionOutcomes : RaceCallSettles(a, o)
  \/ RaceTimerFires
  \/ SleepEnds
  \/ \E a \in 1..MAX_RETRIES : StaleTimerFires(a)
  \/ \E a \in 1..MAX_RETRIES, o \in CompletionOutcomes : AbandonedCallSettles(a, o)

Spec == Init /\ [][Next]_vars

(***************************************************************************)
(* The caller aborts the request.                                          *)
(***************************************************************************)
\* the request's signal is aborted while a call is in flight or a sleep is
\* pending; POST and the functions it calls never read req.signal and pass
\* no signal to fetch or to the completion client
Cancel ==
  /\ pc \in {"token", "listing", "completion", "race", "sleep"}
  /\ ~cancelled
  /\ cancelled' = TRUE
  /\ UNCHANGED <<page, accessToken, revision, invoker, username, pc, fetchArg, calls, comments,
                 attempt, lastError, delays, timers, promises, listing, races, failure,
                 response>>

NextCancel == Next \/ Cancel

SpecCancel == Init /\ [][NextCancel]_vars

(***************************************************************************)
(* The validating revision alone (route.ts lines 1-177, with its own       *)
(* generateProfile), over a wide set of usernames.                         *)
(***************************************************************************)
UsernameChars == {"a", "7", "_", "-", "/", " "}

RECURSIVE StringsOfLen(_)
StringsOfLen(n) ==
  IF n = 0 THEN {""} ELSE {c \o t : c \in UsernameChars, t \in StringsOfLen(n - 1)}

RECURSIVE Repeat(_, _)
Repeat(c, n) == IF n = 0 THEN "" ELSE c \o Repeat(c, n - 1)

UsernamePrefixes == {"", "/", "u/", "/u/", "U/", "/U/", "//", "u/u/"}

\* every short handle, and handles around the length limit
UsernameBodies ==
  UNION {StringsOfLen(n) : n \in 0..MaxBodyLen}
  \cup {Repeat("a", n) : n \in (MaxUsernameLen - 1)..(MaxUsernameLen + 1)}
  \cup {Repeat("a", MaxUsernameLen - 1) \o c : c \in {"_", " "}}

ValidatingUsernames ==
  {Undefined} \cup {Str(p \o b) : p \in UsernamePrefixes, b \in UsernameBodies}

InitValidating ==
  /\ InitWith(ValidatingUsernames)
  /\ revision = "validating"
  /\ invoker = "single"

NextValidating ==
  \/ POST_Receive
  \/ \E o \in TokenOutcomes : TokenSettles(o)
  \/ \E o \in ListingOutcomes : ListingSettles(o)
  \/ \E o \in CompletionOutcomes : CompletionSettles(o)

SpecValidating == InitValidating /\ [][NextValidating]_vars

(***************************************************************************)
(* The cleaning of the username, up to the listing request, over every     *)
(* short username of an alphabet that holds the prefix characters and      *)
(* whitespace.                                                             *)
(***************************************************************************)
HandleChars == {"/", "u", "U", "a", " "}

RECURSIVE HandlesOfLen(_)
HandlesOfLen(n) ==
  IF n = 0 THEN {""} ELSE {c \o t : c \in HandleChars, t \in HandlesOfLen(n - 1)}

CleanedUsernames == {Str(h) : h \in UNION {HandlesOfLen(n) : n \in 1..MaxHandleLen}}

InitClean ==
  /\ InitWith(CleanedUsernames)
  /\ invoker = "single"

NextClean ==
  \/ POST_Receive
  \/ \E o \in TokenOutcomes : TokenSettles(o)

SpecClean == InitClean /\ [][NextClean]_vars

(***************************************************************************)
(* The prompt of long comments: listings whose bodies, joined, are just    *)
(* below, at and above the two ceilings; the completion calls of these     *)
(* runs only time out.                                                     *)
(***************************************************************************)
RECURSIVE LongText(_, _)
LongText(c, n) ==
  IF n = 0 THEN ""
  ELSE IF n % 2 = 0 THEN LET h == LongText(c, n \div 2) IN h \o h
  ELSE c \o LongText(c, n - 1)

\* two bodies joined have 1000, 1001, 6000 or 6001 characters
LongBodies ==
  {"first", LongText("a", 500), LongText("b", 499), LongText("b", 500),
   LongText("a", 3000), LongText("b", 2999), LongText("b", 3000)}

LongChildrenArrays ==
  UNION {[1..n -> {[type |-> "object", data |-> [type |-> "object", body |-> Str(b)]] :
                     b \in LongBodies}] : n \in 1..MaxChildren}

LongListingOutcomes ==
  {[settle |-> "fulfilled", status |-> 200,
    json |-> [type |-> "object",
              data |-> [type |-> "object",
                        children |-> [type |-> "array", items |-> c]]]] :
     c \in LongChildrenArrays}

InitPrompt == InitWith({Str("spez")})

NextPrompt ==
  \/ POST_Receive
  \/ \E o \in TokenOutcomes : TokenSettles(o)
  \/ \E o \in LongListingOutcomes : ListingSettles(o)
  \/ RaceTimerFires
  \/ SleepEnds

SpecPrompt == InitPrompt /\ [][NextPrompt]_vars

(***************************************************************************)
(* One accepted username, with the event loop firing every timer that is   *)
(* due: the timeout timers fire and the backoff sleeps end; no answer of   *)
(* a remote service is ever forced.                                        *)
(***************************************************************************)
InitFair == InitWith({Str("spez")})

TimersFire ==
  /\ WF_vars(RaceTimerFires)
  /\ WF_vars(SleepEnds)
  /\ WF_vars(\E a \in 1..MAX_RETRIES : StaleTimerFires(a))

SpecFair == InitFair /\ [][Next]_vars /\ TimersFire

(***************************************************************************)
(* The page: the Home component of src/app/page.tsx, its two handlers and  *)
(* the answers /api/profile may give it.                                   *)
(***************************************************************************)
MaxInputLen == 2

InputChars == {"a", " "}

RECURSIVE InputsOfLen(_)
InputsOfLen(n) ==
  IF n = 0 THEN {""} ELSE {c \o t : c \in InputChars, t \in InputsOfLen(n - 1)}

\* the values the input may be given by an edit
InputValues == UNION {InputsOfLen(n) : n \in 0..MaxInputLen}

\* the parsed bodies of an answer: null, or an object with profile and error
ApiBodies ==
  {Null}
  \cup {[type |-> "object", profile |-> p, error |-> e] :
          p \in {Undefined, Str(""), Str("A profile.")},
          e \in {Undefined, Str(""), Str("Reddit user not found")}}

\* how the fetch of /api/profile may settle
ApiOutcomes ==
  {Rejected(m) : m \in {"Failed to fetch", ""}}
  \cup {[settle |-> "fulfilled", status |-> st, json |-> j] :
          st \in {200, 404, 500},
          j \in {BadJson("Unexpected token '<', \"<!DOCTYPE \"... is not valid JSON")}
                \cup ApiBodies}

\* s without the spaces at its two ends
RECURSIVE Trimmed(_)
Trimmed(s) ==
  IF Len(s) = 0 THEN s
  ELSE IF SubSeq(s, 1, 1) = " " THEN Trimmed(SubSeq(s, 2, Len(s)))
  ELSE IF SubSeq(s, Len(s), Len(s)) = " " THEN Trimmed(SubSeq(s, 1, Len(s) - 1))
  ELSE s

\* variant: the button is disabled for an empty username only
ButtonDisabled_Mut == Trimmed(pageUsername) = ""

\* disabled={loading || !username.trim()}
ButtonDisabled == loading \/ Trimmed(pageUsername) = ""

\* err.message || 'Failed to generate profile. Please try again.'
ErrorMessage(err) ==
  IF err.message # "" THEN err.message ELSE "Failed to generate profile. Please try again."

\* what the try block throws once the answer o is there (Null: nothing)
Thrown(o) ==
  IF o.json.type = "SyntaxError" THEN Error(o.json.message)
  ELSE IF ~Ok(o.status)
    THEN IF o.json.type = "null" THEN TypeErrorReading(Null, "error")
         ELSE Error(IF Truthy(o.json.error) THEN o.json.error.str
                    ELSE "Failed to generate profile")
  ELSE IF o.json.type = "null" THEN TypeErrorReading(Null, "profile")
  ELSE IF ~Truthy(o.json.profile) THEN Error("No profile data received")
  ELSE Null

\* rs without its i-th element
Without(rs, i) == SubSeq(rs, 1, i - 1) \o SubSeq(rs, i + 1, Len(rs))

\* the input's onChange
handleUsernameChange(value) ==
  /\ pageUsername' = value
  /\ pageError' = IF pageError # "" THEN "" ELSE pageError
  /\ UNCHANGED <<pageProfile, loading, runs, route>>

\* a click on the button: generateProfile up to its first await
generateProfile ==
  /\ ~ButtonDisabled
  /\ loading' = TRUE
  /\ pageError' = ""
  /\ pageProfile' = ""
  /\ runs' = Append(runs, [at |-> "fetch", body |-> Trimmed(pageUsername)])
  /\ UNCHANGED <<pageUsername, route>>

\* the catch and finally blocks of the run i
CatchFinally(i, err) ==
  /\ pageError' = ErrorMessage(err)
  /\ loading' = FALSE
  /\ runs' = Without(runs, i)
  /\ UNCHANGED pageProfile

\* the fetch of the run i settles: rejected, or on to response.json()
FetchSettles(i, o) ==
  /\ i \in DOMAIN runs
  /\ runs[i].at = "fetch"
  /\ IF o.settle = "rejected"
       THEN CatchFinally(i, o.error)
       ELSE /\ runs' = [runs EXCEPT ![i] = [at |-> "json", body |-> @.body, response |-> o]]
            /\ UNCHANGED <<pageProfile, loading, pageError>>
  /\ UNCHANGED <<pageUsername, route>>

\* response.json() of the run i settles: the rest of generateProfile
JsonSettles(i) ==
  /\ i \in DOMAIN runs
  /\ runs[i].at = "json"
  /\ LET o == runs[i].response
         err == Thrown(o)
     IN IF err.type = "null"
          THEN /\ pageProfile' = o.json.profile.str
               /\ loading' = FALSE
               /\ runs' = Without(runs, i)
               /\ UNCHANGED pageError
          ELSE CatchFinally(i, err)
  /\ UNCHANGED <<pageUsername, route>>

\* the page alone, the route at rest
InitPage == InitWith({Undefined}) /\ revision = "validating" /\ invoker = "single"

NextPage ==
  \/ \E value \in InputValues : handleUsernameChange(value)
  \/ generateProfile
  \/ \E i \in DOMAIN runs, o \in ApiOutcomes : FetchSettles(i, o)
  \/ \E i \in DOMAIN runs : JsonSettles(i)

SpecPage == InitPage /\ [][NextPage]_vars

(***************************************************************************)
(* Properties.                                                             *)
(***************************************************************************)
\* the number of completion requests issued so far
CompletionCalls == Cardinality({i \in DOMAIN calls : calls[i].kind = "completion"})

\* a race result that is a response with a non-empty completion text
IsText(r) ==
  /\ r.settle = "fulfilled"
  /\ Len(r.choices) > 0
  /\ r.choices[1].message.content.type = "string"
  /\ r.choices[1].message.content.str # ""

\* the message of the error a failed race result stands for
RaceMessage(r) ==
  IF r.settle = "timeout" THEN "OpenAI API request timeout"
  ELSE IF r.settle = "rejected" THEN r.error.message
  ELSE "Invalid response format from OpenAI"

\* C1: a successful listing none of whose children has a non-empty body ends
\* the run with 404 'This user has no public comments', and no completion
\* request is issued, in every revision.
C1_EmptyListingIsNoContent ==
  (listing.shape = "listing" /\ listing.kept = 0)
    => /\ response = [status |-> 404, profile |-> Undefined,
                      error |-> Str("This user has no public comments")]
       /\ CompletionCalls = 0

\* C2: a request whose username is missing or the empty string is answered
\* 400 'Username is required', and no outbound call is made.
C2_MissingUsernameRejected ==
  (username.type = "undefined" \/ username = Str(""))
    => /\ calls = <<>>
       /\ pc # "received"
            => /\ pc = "responded"
               /\ response = [status |-> 400, profile |-> Undefined,
                              error |-> Str("Username is required")]

C2_Witness ==
  /\ username = Str("")
  /\ pc = "responded"
  /\ response.status = 400

\* C3: when the listing endpoint answers 404 the run ends with 404 'Reddit
\* user not found' and no completion request is issued.
C3_Listing404IsNotFound ==
  listing.status = 404
    => /\ pc = "responded"
       /\ response = [status |-> 404, profile |-> Undefined,
                      error |-> Str("Reddit user not found")]
       /\ CompletionCalls = 0

C3_Witness ==
  /\ listing.status = 404
  /\ revision = "reduced"
  /\ response.status = 404

\* C4: if the first race won by a non-empty completion text is race k, the
\* response carries that text and the backoff sleeps started are exactly
\* 2^1, ..., 2^(k-1) seconds in that order (2 s and 4 s when k = 3).
C4_FirstSuccessReturned ==
  \A k \in 1..Len(races) :
    (IsText(races[k]) /\ \A j \in 1..(k - 1) : ~IsText(races[j]))
      => /\ response.status = 200
         /\ response.profile = races[k].choices[1].message.content
         /\ Len(delays) = k - 1
         /\ \A i \in 1..(k - 1) : delays[i] = (2 ^ i) * 1000
         /\ k = 3 => delays = <<2000, 4000>>

C4_Witness ==
  /\ Len(races) = 3
  /\ ~IsText(races[1]) /\ ~IsText(races[2]) /\ IsText(races[3])
  /\ response.status = 200
  /\ delays = <<2000, 4000>>

\* C5: when all three attempts fail, the response is 500 with the text
\* 'Error: ' followed by the message of the third attempt's error.
C5_LastErrorSurfaced ==
  (Len(races) = 3 /\ \A j \in 1..3 : ~IsText(races[j]))
    => /\ pc = "responded"
       /\ response = [status |-> 500, profile |-> Undefined,
                      error |-> Str("Error: " \o RaceMessage(races[3]))]

\* C6: one run issues at most 3 completion requests, whatever the attempts'
\* outcomes are.
C6_AtMostThreeCompletionCalls == CompletionCalls <= 3

C6_Witness ==
  /\ CompletionCalls = 3
  /\ pc = "responded"
  /\ \E j \in 1..Len(races) : races[j].settle = "timeout"

\* C7: a race won by a non-empty completion text is the last one: the run
\* has answered with that text, and no completion request and no backoff
\* sleep follows that attempt.
C7_ReturnsAtOnce ==
  \A j \in 1..Len(races) :
    IsText(races[j])
      => /\ j = Len(races)
         /\ pc = "responded"
         /\ response.profile = races[j].choices[1].message.content
         /\ CompletionCalls = j
         /\ Len(delays) = j - 1

C7_Witness ==
  /\ Len(races) = 2
  /\ IsText(races[2])
  /\ pc = "responded"
  /\ timers = <<"fired", "fired">>

\* C8: every response carries a non-empty profile string (status 200) or a
\* non-empty error string (any other status).
C8_NeverEmptySuccess ==
  pc = "responded"
    => IF response.status = 200
         THEN response.profile.type = "string" /\ response.profile.str # ""
         ELSE response.error.type = "string" /\ response.error.str # ""

\* C9: a failure of the token exchange, a listing status other than 404 that
\* is not a success, a malformed listing and a completion failure are
\* answered 500 'Error: <message>'; 404 is answered only when the listing
\* endpoint answered 404 or no child of the listing had a non-empty body.
C9_StatusByFailedStep ==
  pc = "responded"
    => /\ ( \/ failure.step \in {"token", "completion"}
            \/ listing.status \notin {0, 200, 404}
            \/ listing.shape = "malformed" )
         => /\ response.status = 500
            /\ SubSeq(response.error.str, 1, 7) = "Error: "
       /\ response.status = 404
            => \/ listing.status = 404
               \/ (listing.shape = "listing" /\ listing.kept = 0)

\* a username with one leading '/' and then one leading 'u/' (either case)
\* removed
Normalized(s) ==
  LET a == IF Len(s) >= 1 /\ SubSeq(s, 1, 1) = "/" THEN SubSeq(s, 2, Len(s)) ELSE s
  IN IF Len(a) >= 2 /\ SubSeq(a, 1, 2) \in {"u/", "U/"} THEN SubSeq(a, 3, Len(a)) ELSE a

\* 3 to 20 characters matching [A-Za-z0-9][A-Za-z0-9_-]*
WellFormed(n) ==
  /\ Len(n) >= 3
  /\ Len(n) <= 20
  /\ SubSeq(n, 1, 1) \in Letters \cup Digits
  /\ \A i \in 2..Len(n) : SubSeq(n, i, i) \in Letters \cup Digits \cup {"_", "-"}

\* C10: in the validating revision a non-empty username whose normalized form
\* fails a check is answered 400 with no outbound call; one whose normalized
\* form passes goes to the token exchange, and that form is the handle used.
C10_ValidationGate ==
  (revision = "validating" /\ username.type = "string" /\ username.str # ""
     /\ pc # "received")
    => IF WellFormed(Normalized(username.str))
         THEN /\ Len(calls) >= 1
              /\ calls[1].kind = "token"
              /\ fetchArg = Normalized(username.str)
              /\ \A i \in DOMAIN calls :
                   calls[i].kind = "listing" => calls[i].handle = Normalized(username.str)
         ELSE /\ pc = "responded"
              /\ response.status = 400
              /\ calls = <<>>

C10_Witness ==
  /\ username = Str("/U/aaaaaaaaaaaaaaaaaaaa")
  /\ Len(calls) = 2
  /\ calls[2] = [kind |-> "listing", handle |-> "aaaaaaaaaaaaaaaaaaaa"]

\* the prefixes a handle may be written with
HandlePrefixes == {"u/", "/u/", "/", "U/", "/U/"}

\* C11 (as claimed): for every handle h, the handle with any of the prefixes
\* put before it is cleaned to the same string as h is.
C11_PrefixInvariant ==
  pc # "received" /\ calls # <<>>
    => \A p \in HandlePrefixes : cleanRedditUsername(p \o username.str) = fetchArg

\* whether h itself begins with '/' or with 'u/' in either case
BeginsWithPrefix(h) ==
  \/ Len(h) >= 1 /\ SubSeq(h, 1, 1) = "/"
  \/ Len(h) >= 2 /\ SubSeq(h, 1, 2) \in {"u/", "U/"}

\* C11 (amended): for every handle h that does not itself begin with '/' or
\* 'u/' (either case), the handle with any of the prefixes put before it is
\* cleaned to the same string as h is, which is h itself.
C11_PrefixInvariantPlainHandle ==
  (pc # "received" /\ calls # <<>> /\ ~BeginsWithPrefix(username.str))
    => /\ fetchArg = username.str
       /\ \A p \in HandlePrefixes : cleanRedditUsername(p \o username.str) = fetchArg

C11_Witness ==
  /\ username = Str("aU/a")
  /\ revision = "reduced"
  /\ fetchArg = "aU/a"
  /\ Len(calls) = 2

\* the ceiling the claim names for the running generateProfile
ClaimedCeiling == IF invoker = "single" /\ revision = "reduced" THEN 1000 ELSE 6000

\* the comments written one after the other with one space between two
RECURSIVE SpaceJoined(_)
SpaceJoined(cs) ==
  IF Len(cs) = 0 THEN ""
  ELSE LET n == Len(cs)
           front == SpaceJoined(SubSeq(cs, 1, n - 1))
       IN IF n = 1 THEN cs[n] ELSE front \o " " \o cs[n]

\* what follows the template in a prompt
ExcerptIn(prompt) == SubSeq(prompt, Len(PromptTemplate) + 1, Len(prompt))

\* C12 (as claimed): every prompt sent has at most the ceiling's length,
\* begins with the template, and its excerpt is a leading portion of the
\* comments joined in order with single spaces.
C12_PromptWithinCeiling ==
  \A i \in DOMAIN calls :
    calls[i].kind = "completion"
      => /\ Len(calls[i].prompt) <= ClaimedCeiling
         /\ SubSeq(calls[i].prompt, 1, Len(PromptTemplate)) = PromptTemplate
         /\ ExcerptIn(calls[i].prompt)
              = SubSeq(SpaceJoined(comments), 1, Len(ExcerptIn(calls[i].prompt)))

\* C12 (amended): every prompt sent is the template followed by the excerpt;
\* the excerpt has at most the ceiling's length and is the leading portion
\* of the comments joined in order with single spaces, all of it when that
\* is no longer than the ceiling.
C12_ExcerptWithinCeiling ==
  \A i \in DOMAIN calls :
    calls[i].kind = "completion"
      => LET e == ExcerptIn(calls[i].prompt) IN
         /\ SubSeq(calls[i].prompt, 1, Len(PromptTemplate)) = PromptTemplate
         /\ Len(e) <= ClaimedCeiling
         /\ e = SubSeq(SpaceJoined(comments), 1, Len(e))
         /\ Len(e) = ClaimedCeiling \/ e = SpaceJoined(comments)

C12_Witness ==
  /\ Len(calls) = 5
  /\ Len(SpaceJoined(comments)) = 6001
  /\ Len(calls[5].prompt) = Len(PromptTemplate) + 6000
  /\ comments[1] # comments[2]

\* C13: after the caller has cancelled the request no further completion
\* attempt is started.
C13_NoAttemptAfterCancel == [][cancelled => CompletionCalls' = CompletionCalls]_vars

\* whether the race of attempt a was won by its timer
TimedOut(a) == a \in 1..Len(races) /\ races[a].settle = "timeout"

\* C14: a race won by its timer counts as a failed attempt (lastError is the
\* timeout error, the loop sleeps or, after attempt 3, throws) and leaves its
\* call in flight; and the step in which such an abandoned call settles
\* changes neither the response, nor lastError, nor the attempt counter, nor
\* the requests issued, nor where the run is.
C14_AbandonedOutcomeDiscarded ==
  [][ /\ (Len(races') = Len(races) + 1 /\ races'[Len(races')].settle = "timeout")
        => /\ promises'[attempt] = "pending"
           /\ lastError' = [type |-> "Error", message |-> "OpenAI API request timeout"]
           /\ attempt < 3 => (pc' = "sleep" /\ attempt' = attempt)
           /\ attempt = 3 => (pc' = "responded" /\ response'.status # 200)
      /\ \A a \in 1..Len(promises) :
           (TimedOut(a) /\ promises[a] = "pending" /\ promises'[a] # "pending")
             => /\ response' = response
                /\ lastError' = lastError
                /\ attempt' = attempt
                /\ calls' = calls
                /\ races' = races
                /\ pc' = pc
    ]_vars

C14_Witness ==
  /\ Len(races) = 3
  /\ races[1].settle = "timeout"
  /\ promises[1] = "fulfilled"
  /\ IsText(races[3])
  /\ response.status = 200

\* whether this step decides a race of the retrying generateProfile as failed
RaceFails ==
  /\ Len(races') = Len(races) + 1
  /\ ~IsText(races'[Len(races')])

\* C15: in the retrying generateProfile a failed attempt n < 3, whatever the
\* kind of failure, starts a sleep of 2^n seconds and issues nothing; attempt
\* n+1 is issued only by the step that ends that sleep; a failed third
\* attempt raises the error with no sleep; so the delays are 2 s, then 4 s.
C15_BackoffBetweenAttempts ==
  [][ /\ (RaceFails /\ attempt < 3)
        => /\ delays' = Append(delays, (2 ^ attempt) * 1000)
           /\ pc' = "sleep"
           /\ calls' = calls
      /\ (RaceFails /\ attempt = 3)
        => /\ delays' = delays
           /\ pc' = "responded"
           /\ response'.status # 200
      /\ (invoker = "retrying" /\ CompletionCalls >= 1 /\ CompletionCalls' # CompletionCalls)
        => /\ pc = "sleep"
           /\ CompletionCalls' = CompletionCalls + 1
           /\ Len(delays) = CompletionCalls
           /\ delays[CompletionCalls] = (2 ^ CompletionCalls) * 1000
           /\ delays' = delays
      /\ Len(delays') <= 2
      /\ \A i \in 1..Len(delays') : delays'[i] \in {2000, 4000}
    ]_vars

C15_Witness ==
  /\ pc = "responded"
  /\ Len(races) = 3
  /\ races[1].settle = "rejected"
  /\ races[2].settle = "timeout"
  /\ races[3].settle = "fulfilled"
  /\ delays = <<2000, 4000>>
  /\ CompletionCalls = 3

\* the run has ended with an error response
Failed == pc = "responded" /\ response.status # 200

\* the kind of the i-th outbound call of a run, were the order fixed
KindAt(i) == IF i = 1 THEN "token" ELSE IF i = 2 THEN "listing" ELSE "completion"

\* C16: the outbound calls of a run are the token exchange, then the listing
\* fetch, then completions, the first two issued at most once; a step that
\* threw has ended the run with an error response, with no call of a later
\* step issued; and a run that has failed issues nothing more and keeps its
\* response.
C16_FixedOrderFailedAbsorbing ==
  /\ [](/\ \A i \in DOMAIN calls : calls[i].kind = KindAt(i)
        /\ failure # NoFailure => Failed
        /\ failure.step = "token" => Len(calls) = 1
        /\ failure.step = "listing" => Len(calls) = 2)
  /\ [][Failed => (calls' = calls /\ response' = response /\ pc' = pc /\ failure' = failure)]_vars

C16_Witness ==
  /\ failure.step = "listing"
  /\ Failed
  /\ Len(calls) = 2
  /\ calls[1].kind = "token"
  /\ calls[2].kind = "listing"

\* whether the listing fetch has been issued
ListingCalled == \E i \in DOMAIN calls : calls[i].kind = "listing"

\* C17: getRedditToken never returns without a token: a success answer of
\* the token endpoint with no access_token ends the run at the token step
\* with no listing fetch; and a non-success answer ends the run at the token
\* step with an error response and no listing fetch.
C17_NoTokenNoListing ==
  /\ accessToken.type = "undefined" => (failure.step = "token" /\ ~ListingCalled)
  /\ (failure.step = "token" /\ failure.kind = "not_ok") => (Failed /\ ~ListingCalled)

\* whether POST answers the username u with 400 in revision rev
Refused(rev, u) ==
  \/ UsernameMissing(Str(u))
  \/ rev = "validating" /\ ~validateRedditUsername(u).isValid

\* the handle a run of revision rev puts in the listing URL for the username u
HandleFor(rev, u) ==
  ListingHandle(rev, IF rev = "validating" THEN validateRedditUsername(u).cleanUsername.str
                     ELSE cleanRedditUsername(u))

\* C18: a username with whitespace around it is treated as the username
\* without it: the handle of the listing request is the one the trimmed
\* username gives, and a username is refused only if the trimmed one is.
C18_WhitespaceTrimmed ==
  username.type = "string" =>
    /\ ListingCalled => /\ ~Refused(revision, Trimmed(username.str))
                        /\ calls[2].handle = HandleFor(revision, Trimmed(username.str))
    /\ (pc = "responded" /\ response.status = 400) => Refused(revision, Trimmed(username.str))

\* whether the race of attempt a was decided by the completion call
CallWon(a) == a \in 1..Len(races) /\ races[a].settle # "timeout"

\* C19: the timeout timer of an attempt whose completion call settled first
\* does not stay pending, and once the retrying generateProfile has returned
\* or thrown no timeout timer it set is pending.
C19_NoTimerLeftPending ==
  /\ \A a \in DOMAIN timers : CallWon(a) => timers[a] # "pending"
  /\ pc = "responded" => \A a \in DOMAIN timers : timers[a] # "pending"

\* the retrying generateProfile has been entered and has not yet left
InGenerateProfile == invoker = "retrying" /\ pc \in {"race", "sleep"}

\* C20: with its timers firing, the retrying generateProfile once entered
\* always leaves, by returning a text or throwing, so that POST responds,
\* whether or not any completion call ever settles; and it makes at most 3
\* attempts and 2 sleeps.
C20_RetryingTerminates ==
  /\ InGenerateProfile ~>
       (pc = "responded" /\ (response.status = 200 \/ failure.step = "completion"))
  /\ [](attempt <= 3 /\ CompletionCalls <= 3 /\ Len(delays) <= 2)

C20_Witness ==
  /\ invoker = "retrying"
  /\ pc = "responded"
  /\ failure.step = "completion"
  /\ Len(races) = 3
  /\ \A a \in 1..3 : races[a].settle = "timeout" /\ promises[a] = "pending"
  /\ Len(delays) = 2

\* whether this step ends a generateProfile run of the page
RunFinishes == Len(runs') < Len(runs)

\* whether the run awaiting response.json() has a success answer whose body
\* has an empty profile or none
EmptyProfileAnswer(r) ==
  /\ r.at = "json"
  /\ Ok(r.response.status)
  /\ r.response.json.type = "object"
  /\ ~Truthy(r.response.json.profile)

\* C21: in the page, profile and error are never both non-empty; at most one
\* request is in flight, loading is true exactly while it is, and no step
\* starts a request while loading is true; and a step that ends a run leaves
\* loading false and exactly one of profile and error non-empty, the error
\* when the answer is a success with an empty or missing profile.
C21_PageState ==
  /\ [](/\ ~(pageProfile # "" /\ pageError # "")
        /\ Len(runs) <= 1
        /\ loading <=> Len(runs) = 1)
  /\ [][ /\ loading => Len(runs') <= Len(runs)
         /\ RunFinishes => /\ ~loading'
                           /\ (pageProfile' # "") # (pageError' # "")
         /\ (RunFinishes /\ EmptyProfileAnswer(runs[1]))
              => (pageError' = "No profile data received" /\ pageProfile' = "")
     ]_vars

C21_Witness ==
  /\ pageError = "No profile data received"
  /\ pageProfile = ""
  /\ ~loading
  /\ runs = <<>>
  /\ pageUsername = " a"

====
